---- MODULE Spec2Model ----
(***************************************************************************)
(* A model of three pieces of web3.py:                                     *)
(*   - default_transaction_fields_middleware, the eth-tester middleware    *)
(*     that fills `from` and `gas` of a transaction before forwarding it   *)
(*     (web3/providers/eth_tester/middleware.py, lines 284-339);           *)
(*   - the request formatters of ethereum_tester_middleware                *)
(*     (web3/providers/eth_tester/middleware.py, lines 56-237);            *)
(*   - apply_abi_formatters_to_dict (web3/_utils/rpc_abi.py, lines 88-97). *)
(* Each piece has its own specification: Spec, SpecFmt and SpecAbi.        *)
(***************************************************************************)
EXTENDS Integers, Sequences, FiniteSets, TLC

VARIABLES
    backend,    \* what the backend answers: coinbase, accounts, estimate
    request,    \* the original call made by the application, or NoRequest
    stack,      \* the middleware invocations in progress, outermost first
    calls,      \* secondary calls issued by the injector, in order
    failed,     \* secondary calls that failed, in order
    sent,       \* requests handed to the next stage (make_request), in order
    outcome,    \* what the original call gave its caller, or NoOutcome
    fIn,        \* the request given to ethereum_tester_middleware, or NoFmt
    fParams,    \* its params as formatted so far
    fProg,      \* the formatting steps still to apply, next first
    fLog,       \* the formatting steps applied, in order
    fState,     \* "idle", "formatting", "forwarded" or "raised"
    aIn,        \* the arguments of apply_abi_formatters_to_dict
    aOut        \* its result, or NoResult

injVars == <<backend, request, stack, calls, failed, sent, outcome>>
fmtVars == <<fIn, fParams, fProg, fLog, fState>>
abiVars == <<aIn, aOut>>
vars == <<injVars, fmtVars, abiVars>>

(***************************************************************************)
(* Bounds of the model.                                                    *)
(***************************************************************************)
NumAddresses == 2
MaxAccounts == 2
MaxEstimate == 1

\* Python's None.
Null == -1

Addresses == 1..NumAddresses
Estimates == 0..MaxEstimate
\* A gas value supplied by the caller: odd, so never twice an estimate.
SuppliedGas == {2 * MaxEstimate + 1}
DataValues == {0}

TxFields == {"from", "gas", "data"}

FieldValues(f) ==
    CASE f = "from" -> Addresses \cup {Null}
      [] f = "gas" -> SuppliedGas \cup {Null}
      [] OTHER -> DataValues

\* The transactions a caller may pass: any subset of the fields, `from` and
\* `gas` possibly present with the value None.
TxSet ==
    UNION { { t \in [D -> Addresses \cup SuppliedGas \cup DataValues \cup {Null}] :
                \A f \in D : t[f] \in FieldValues(f) } : D \in SUBSET TxFields }

\* params[1:], the positional arguments after the transaction.
Trailing == {<<>>, <<"latest">>}

Methods == {"eth_call", "eth_estimateGas", "eth_sendTransaction",
            "personal_sendTransaction"}

(***************************************************************************)
(* Results of calls: a value, or an exception of some class.               *)
(***************************************************************************)
Ok(v) == [ok |-> TRUE, val |-> v, err |-> "none"]
Err(e) == [ok |-> FALSE, val |-> Null, err |-> e]

AccountLists == UNION { [1..n -> Addresses] : n \in 0..MaxAccounts }

\* web3.eth.coinbase, web3.eth.accounts and web3.eth.estimateGas as the
\* backend answers them.  A failed RPC surfaces as ValueError; the account
\* list lookup may also fail with the KeyError that guess_from expects.
Backends ==
    [ coinbase : {Ok(a) : a \in Addresses \cup {Null}} \cup {Err("ValueError")},
      accounts : {Ok(l) : l \in AccountLists}
                   \cup {Err("KeyError"), Err("ValueError")},
      estimate : {Ok(n) : n \in Estimates} \cup {Err("ValueError")} ]

\* The responses of the next stage to a primary call other than
\* eth_estimateGas: opaque to the injector, returned as they are.
Replies == {Ok(0), Err("ValueError")}

NoRequest == [method |-> "none", tx |-> <<>>, rest |-> <<>>]
NoOutcome == [kind |-> "none", resp |-> Ok(Null), err |-> "none"]
Returned(r) == [kind |-> "returned", resp |-> r, err |-> "none"]
Raised(e) == [kind |-> "raised", resp |-> Ok(Null), err |-> e]

(***************************************************************************)
(* toolz.assoc: a copy of the transaction with one field set.              *)
(***************************************************************************)
Assoc(tx, field, val) ==
    [k \in DOMAIN tx \cup {field} |-> IF k = field THEN val ELSE tx[k]]

\* fill_default's test, negated: the field is absent or None.
NeedsFill_Always(field, tx) == TRUE

NeedsFill(field, tx) == ~(field \in DOMAIN tx /\ tx[field] # Null)

(***************************************************************************)
(* guess_from: the coinbase if it is not None, else the first account;     *)
(* only KeyError is caught around the account lookup.  The result names    *)
(* the lookups made and those that failed.                                 *)
(***************************************************************************)
Guess(raised, err, val, lookups, failures) ==
    [raised |-> raised, err |-> err, val |-> val,
     lookups |-> lookups, failures |-> failures]

GuessFrom_AccountsAlways(web3) ==
    IF ~web3.coinbase.ok
    THEN Guess(TRUE, web3.coinbase.err, Null, <<"eth_coinbase">>,
               <<[name |-> "eth_coinbase", err |-> web3.coinbase.err]>>)
    ELSE IF ~web3.accounts.ok
    THEN Guess(web3.accounts.err # "KeyError", web3.accounts.err, Null,
               <<"eth_coinbase", "eth_accounts">>,
               <<[name |-> "eth_accounts", err |-> web3.accounts.err]>>)
    ELSE IF web3.coinbase.val # Null
    THEN Guess(FALSE, "none", web3.coinbase.val,
               <<"eth_coinbase", "eth_accounts">>, <<>>)
    ELSE IF Len(web3.accounts.val) = 0
    THEN Guess(TRUE, "IndexError", Null, <<"eth_coinbase", "eth_accounts">>, <<>>)
    ELSE Guess(FALSE, "none", web3.accounts.val[1],
               <<"eth_coinbase", "eth_accounts">>, <<>>)

GuessFrom_SwallowAll(web3) ==
    IF ~web3.coinbase.ok
    THEN Guess(TRUE, web3.coinbase.err, Null, <<"eth_coinbase">>,
               <<[name |-> "eth_coinbase", err |-> web3.coinbase.err]>>)
    ELSE IF web3.coinbase.val # Null
    THEN Guess(FALSE, "none", web3.coinbase.val, <<"eth_coinbase">>, <<>>)
    ELSE IF ~web3.accounts.ok
    THEN Guess(FALSE, web3.accounts.err, Null,
               <<"eth_coinbase", "eth_accounts">>,
               <<[name |-> "eth_accounts", err |-> web3.accounts.err]>>)
    ELSE IF Len(web3.accounts.val) = 0
    THEN Guess(TRUE, "IndexError", Null, <<"eth_coinbase", "eth_accounts">>, <<>>)
    ELSE Guess(FALSE, "none", web3.accounts.val[1],
               <<"eth_coinbase", "eth_accounts">>, <<>>)

GuessFrom(web3) ==
    IF ~web3.coinbase.ok
    THEN \* web3.eth.coinbase raised: nothing catches it
         Guess(TRUE, web3.coinbase.err, Null, <<"eth_coinbase">>,
               <<[name |-> "eth_coinbase", err |-> web3.coinbase.err]>>)
    ELSE IF web3.coinbase.val # Null
    THEN Guess(FALSE, "none", web3.coinbase.val, <<"eth_coinbase">>, <<>>)
    ELSE IF ~web3.accounts.ok
    THEN \* web3.eth.accounts raised: `except KeyError` swallows a KeyError
         \* and guess_from returns None; anything else propagates
         Guess(web3.accounts.err # "KeyError", web3.accounts.err, Null,
               <<"eth_coinbase", "eth_accounts">>,
               <<[name |-> "eth_accounts", err |-> web3.accounts.err]>>)
    ELSE IF Len(web3.accounts.val) = 0
    THEN \* [0] of an empty list raises IndexError, which is not a KeyError
         Guess(TRUE, "IndexError", Null, <<"eth_coinbase", "eth_accounts">>, <<>>)
    ELSE Guess(FALSE, "none", web3.accounts.val[1],
               <<"eth_coinbase", "eth_accounts">>, <<>>)

\* guess_gas: twice the estimate.
GuessGas_NotDoubled(estimate) == estimate

GuessGas(estimate) == estimate * 2

\* The methods whose first argument gets fill_default_from, and those that
\* also get fill_default_gas.
FromMethods_NoEstimate == {"eth_call", "eth_sendTransaction"}

FromMethods == {"eth_call", "eth_estimateGas", "eth_sendTransaction"}

GasMethods_WithEstimate == {"eth_call", "eth_estimateGas"}

GasMethods == {"eth_call"}

(***************************************************************************)
(* The middleware as a stack of invocations.  A frame is one invocation of *)
(* middleware(method, params): its method, the transaction as filled so    *)
(* far, params[1:], and where it stands.                                   *)
(***************************************************************************)
Frame(method, tx, rest, pc) ==
    [method |-> method, tx |-> tx, rest |-> rest, pc |-> pc, resp |-> Ok(Null)]

\* web3.eth.estimateGas(transaction): a request of eth_estimateGas made
\* through the same pipeline, so through this middleware again.
EstimateGasRequest(tx) == Frame("eth_estimateGas", tx, <<>>, "dispatch")

Depth == Len(stack)
Top == stack[Depth]
SetTop(f) == [stack EXCEPT ![Depth] = f]

CallLog(names, arg) ==
    [i \in 1..Len(names) |-> [name |-> names[i], depth |-> Depth, arg |-> arg]]

FailLog(failures) ==
    [i \in 1..Len(failures) |->
        [name |-> failures[i].name, depth |-> Depth, err |-> failures[i].err]]

NoFmt == [method |-> "none", params |-> <<>>]
FmtIdle ==
    /\ fIn = NoFmt
    /\ fParams = <<>>
    /\ fProg = <<>>
    /\ fLog = <<>>
    /\ fState = "idle"

NoAbi == [schema |-> "none", data |-> <<>>, fields |-> <<>>]
NoResult == [done |-> FALSE, data |-> <<>>]
AbiIdle ==
    /\ aIn = NoAbi
    /\ aOut = NoResult

Init ==
    /\ backend \in Backends
    /\ request = NoRequest
    /\ stack = <<>>
    /\ calls = <<>>
    /\ failed = <<>>
    /\ sent = <<>>
    /\ outcome = NoOutcome
    /\ FmtIdle
    /\ AbiIdle

\* The application calls the pipeline: middleware(method, params).
Call(method, tx, rest) ==
    /\ request = NoRequest
    /\ request' = [method |-> method, tx |-> tx, rest |-> rest]
    /\ stack' = <<Frame(method, tx, rest, "dispatch")>>
    /\ UNCHANGED <<backend, calls, failed, sent, outcome>>
    /\ UNCHANGED <<fmtVars, abiVars>>

\* middleware: the if / elif / else on the method name.
Dispatch ==
    /\ Depth > 0
    /\ Top.pc = "dispatch"
    /\ stack' = SetTop([Top EXCEPT !.pc =
            IF Top.method \in FromMethods THEN "fill_from" ELSE "make_request"])
    /\ UNCHANGED <<backend, request, calls, failed, sent, outcome>>
    /\ UNCHANGED <<fmtVars, abiVars>>

\* fill_default('from', guess_from, web3) on params[0].
FillDefaultFrom ==
    /\ Depth > 0
    /\ Top.pc = "fill_from"
    /\ LET next == IF Top.method \in GasMethods THEN "fill_gas" ELSE "make_request"
           g == GuessFrom(backend)
       IN  IF ~NeedsFill("from", Top.tx)
           THEN /\ stack' = SetTop([Top EXCEPT !.pc = next])
                /\ UNCHANGED <<calls, failed, outcome>>
           ELSE /\ calls' = calls \o CallLog(g.lookups, <<>>)
                /\ failed' = failed \o FailLog(g.failures)
                /\ IF g.raised
                   THEN /\ stack' = <<>>
                        /\ outcome' = Raised(g.err)
                   ELSE /\ stack' = SetTop([Top EXCEPT
                                !.tx = Assoc(Top.tx, "from", g.val), !.pc = next])
                        /\ UNCHANGED outcome
    /\ UNCHANGED <<backend, request, sent>>
    /\ UNCHANGED <<fmtVars, abiVars>>

\* fill_default('gas', guess_gas, web3): guess_gas calls web3.eth.estimateGas,
\* a request of eth_estimateGas through the same pipeline.
FillDefaultGas ==
    /\ Depth > 0
    /\ Top.pc = "fill_gas"
    /\ IF ~NeedsFill("gas", Top.tx)
       THEN /\ stack' = SetTop([Top EXCEPT !.pc = "make_request"])
            /\ UNCHANGED calls
       ELSE /\ calls' = calls \o CallLog(<<"eth_estimateGas">>, Top.tx)
            /\ stack' = Append(SetTop([Top EXCEPT !.pc = "guess_gas"]),
                               EstimateGasRequest(Top.tx))
    /\ UNCHANGED <<backend, request, failed, sent, outcome>>
    /\ UNCHANGED <<fmtVars, abiVars>>

\* What the next stage answers.
Respond(method) ==
    IF method = "eth_estimateGas" THEN {backend.estimate} ELSE Replies

\* make_request(method, [filled_transaction] + params[1:]), and the return
\* of its response.
MakeRequest ==
    /\ Depth > 0
    /\ Top.pc = "make_request"
    /\ sent' = Append(sent, [method |-> Top.method, tx |-> Top.tx,
                             rest |-> Top.rest, depth |-> Depth])
    /\ \E r \in Respond(Top.method) :
         IF Depth = 1
         THEN /\ stack' = <<>>
              /\ outcome' = Returned(r)
         ELSE /\ stack' = SetTop([Top EXCEPT !.pc = "returned", !.resp = r])
              /\ UNCHANGED outcome
    /\ UNCHANGED <<backend, request, calls, failed>>
    /\ UNCHANGED <<fmtVars, abiVars>>

\* web3.eth.estimateGas returns to guess_gas: the estimate, doubled, is set
\* as `gas`; an error response is raised and nothing catches it.
GuessGasReturn ==
    /\ Depth > 1
    /\ Top.pc = "returned"
    /\ stack[Depth - 1].pc = "guess_gas"
    /\ LET outer == stack[Depth - 1]
           below == SubSeq(stack, 1, Depth - 2)
       IN  IF Top.resp.ok
           THEN /\ stack' = Append(below, [outer EXCEPT
                        !.tx = Assoc(outer.tx, "gas", GuessGas(Top.resp.val)),
                        !.pc = "make_request"])
                /\ UNCHANGED <<failed, outcome>>
           ELSE /\ stack' = <<>>
                /\ failed' = Append(failed, [name |-> "eth_estimateGas",
                                depth |-> Depth - 1, err |-> Top.resp.err])
                /\ outcome' = Raised(Top.resp.err)
    /\ UNCHANGED <<backend, request, calls, sent>>
    /\ UNCHANGED <<fmtVars, abiVars>>

Next ==
    \/ \E m \in Methods, tx \in TxSet, rest \in Trailing : Call(m, tx, rest)
    \/ Dispatch
    \/ FillDefaultFrom
    \/ FillDefaultGas
    \/ MakeRequest
    \/ GuessGasReturn

Spec == Init /\ [][Next]_vars

(***************************************************************************)
(* Vocabulary of the properties of the injector.                           *)
(***************************************************************************)
Missing(tx, f) == f \notin DOMAIN tx \/ tx[f] = Null
Present(tx, f) == f \in DOMAIN tx /\ tx[f] # Null
SameField(a, b, f) ==
    /\ (f \in DOMAIN a) = (f \in DOMAIN b)
    /\ f \in DOMAIN a => a[f] = b[f]

HandledMethods == {"eth_call", "eth_estimateGas", "eth_sendTransaction"}
\* The indices in `sent` of the original call forwarded to the next stage.
Primary == {i \in 1..Len(sent) : sent[i].depth = 1}
CallNames == [i \in 1..Len(calls) |-> calls[i].name]
EstimateCalls == {i \in 1..Len(calls) : calls[i].name = "eth_estimateGas"}
Lookups == {i \in 1..Len(calls) : calls[i].name \in {"eth_coinbase", "eth_accounts"}}
\* The fields the injector fills for a method.
Fillable(method) ==
    IF method = "eth_call" THEN {"from", "gas"}
    ELSE IF method \in HandledMethods THEN {"from"} ELSE {}
CanSupply ==
    /\ backend.coinbase.ok
    /\ backend.coinbase.val # Null
         \/ (backend.accounts.ok /\ Len(backend.accounts.val) > 0)
Resolved ==
    IF backend.coinbase.val # Null THEN backend.coinbase.val
    ELSE backend.accounts.val[1]

\* C1: with `from` missing, no coinbase and an empty account list, the
\* injector raises no error of its own (an error raised although no
\* secondary call failed): the call proceeds with `from` null.
C1_NoErrorOfItsOwn ==
    ( /\ request.method \in HandledMethods
      /\ Missing(request.tx, "from")
      /\ backend.coinbase = Ok(Null)
      /\ backend.accounts = Ok(<<>>) )
    => ~(outcome.kind = "raised" /\ failed = <<>>)

C2_Pre ==
    /\ request.method \in HandledMethods
    /\ Missing(request.tx, "from")
    /\ backend.coinbase.ok
    /\ backend.coinbase.val # Null

\* C2 as claimed: with `from` missing and a non-null coinbase, the only
\* secondary call of the injector is the coinbase lookup.
C2_OnlyCoinbaseLookup ==
    C2_Pre => \A i \in 1..Len(calls) : calls[i].name = "eth_coinbase"

\* C2 as amended: with `from` missing and a non-null coinbase, `from` is set
\* to the coinbase, the primary call is forwarded at most once (exactly once
\* when the call returns), the account list is never queried, and the
\* secondary calls are the coinbase lookup followed, for an eth_call without
\* gas, by one gas estimation.
C2_CoinbaseFillsFrom ==
    C2_Pre =>
      /\ \A i \in 1..Len(calls) : calls[i].name # "eth_accounts"
      /\ Cardinality(Primary) <= 1
      /\ outcome.kind = "returned" => Cardinality(Primary) = 1
      /\ \A i \in Primary :
           /\ sent[i].method = request.method
           /\ Present(sent[i].tx, "from")
           /\ sent[i].tx["from"] = backend.coinbase.val
           /\ CallNames =
                IF request.method = "eth_call" /\ Missing(request.tx, "gas")
                THEN <<"eth_coinbase", "eth_estimateGas">>
                ELSE <<"eth_coinbase">>

C2_Witness ==
    /\ C2_Pre
    /\ request.method = "eth_call"
    /\ Missing(request.tx, "gas")
    /\ Primary # {}
    /\ outcome.kind = "returned"

\* C3: a field that is present and non-null is never overwritten and never
\* guessed: the forwarded transaction differs from the original only in the
\* fillable fields that were absent or null.
C3_NeverOverwrites ==
    /\ Present(request.tx, "from") => Lookups = {}
    /\ Present(request.tx, "gas") => EstimateCalls = {}
    /\ \A i \in Primary : \A f \in TxFields :
         \/ f \in Fillable(request.method) /\ Missing(request.tx, f)
         \/ SameField(sent[i].tx, request.tx, f)

C3_Witness ==
    /\ Primary # {}
    /\ request.method = "eth_call"
    /\ Present(request.tx, "from")
    /\ Present(request.tx, "gas")
    /\ "data" \in DOMAIN request.tx

\* C4 as claimed: a failed secondary call is never swallowed: the primary
\* call is not forwarded and the caller gets that failure.
C4_FailureAlwaysPropagates ==
    \A i \in 1..Len(failed) :
      /\ Primary = {}
      /\ stack = <<>> => outcome = Raised(failed[i].err)

Swallowed(f) == f.name = "eth_accounts" /\ f.err = "KeyError"

\* C4 as amended: a failed secondary call, other than an account-list lookup
\* failing with KeyError, ends the call at once: the caller gets that very
\* error, nothing is issued after it and the primary call is not forwarded;
\* no secondary call is issued twice by one invocation.  A KeyError of the
\* account-list lookup is swallowed and never reaches the caller.
C4_FailurePropagates ==
    /\ \A i \in 1..Len(failed) : ~Swallowed(failed[i]) =>
         /\ i = Len(failed)
         /\ Primary = {}
         /\ stack = <<>>
         /\ outcome = Raised(failed[i].err)
    /\ \A i, j \in 1..Len(calls) :
         (i < j /\ calls[i].depth = calls[j].depth) => calls[i].name # calls[j].name
    /\ outcome.kind = "raised" => outcome.err # "KeyError"

C4_Witness ==
    /\ failed # <<>>
    /\ failed[Len(failed)].name = "eth_estimateGas"
    /\ outcome = Raised("ValueError")
    /\ Primary = {}

C7_Holds(methods) ==
    \A i \in Primary :
      ( /\ request.method \in methods
        /\ Missing(request.tx, "from")
        /\ CanSupply )
      => /\ Present(sent[i].tx, "from")
         /\ sent[i].tx["from"] = Resolved

\* C7 as claimed: personal_sendTransaction gets default-from handling like
\* eth_call, eth_estimateGas and eth_sendTransaction.
C7_AllSenderMethodsFilled ==
    C7_Holds(HandledMethods \cup {"personal_sendTransaction"})

\* C7 as amended: eth_call, eth_estimateGas and eth_sendTransaction are
\* forwarded with `from` resolved (coinbase, else first account) whenever the
\* backend supplies one; personal_sendTransaction is forwarded as it came,
\* with no lookup.
C7_HandledMethodsFilled ==
    /\ C7_Holds(HandledMethods)
    /\ request.method = "personal_sendTransaction" =>
         /\ calls = <<>>
         /\ \A i \in Primary :
              sent[i].tx = request.tx /\ sent[i].rest = request.rest

C7_Witness ==
    /\ request.method = "eth_estimateGas"
    /\ Missing(request.tx, "from")
    /\ backend.coinbase = Ok(Null)
    /\ backend.accounts.ok
    /\ Len(backend.accounts.val) = 2
    /\ backend.accounts.val[1] # backend.accounts.val[2]
    /\ Primary # {}

\* C8 as claimed: handling the nested eth_estimateGas request triggers no
\* account lookup and no nested request: every secondary call is issued by
\* the original invocation.
C8_NestedIssuesNothing ==
    \A i \in 1..Len(calls) : calls[i].depth = 1

\* C8 as amended: the nested eth_estimateGas request gets default-from
\* handling but no gas filling: it repeats the account lookups exactly when
\* the transaction it is given still has no `from`, it nests no further
\* request (depth at most 2, one estimation per original call), and a call
\* in progress can always take a step.
C8_NestingBounded ==
    /\ Depth <= 2
    /\ Depth = 2 => stack[2].method = "eth_estimateGas"
    /\ Cardinality(EstimateCalls) <= 1
    /\ \A i \in 1..Len(calls) :
         /\ calls[i].depth <= 2
         /\ calls[i].depth = 2 =>
              /\ calls[i].name \in {"eth_coinbase", "eth_accounts"}
              /\ \E j \in EstimateCalls : j < i /\ Missing(calls[j].arg, "from")
    /\ \A j \in EstimateCalls :
         (Missing(calls[j].arg, "from") /\ \E k \in 1..Len(sent) : sent[k].depth = 2)
            => \E i \in Lookups : calls[i].depth = 2
    /\ Depth > 0 => ENABLED Next

C8_Witness ==
    /\ \E i \in 1..Len(calls) : calls[i].depth = 2
    /\ Primary # {}

\* C10: an eth_call without gas issues exactly one gas estimation, for the
\* transaction as it stands after `from` was filled, and is forwarded with
\* gas equal to twice the estimate and params[1:] unchanged; eth_estimateGas
\* and eth_sendTransaction issue no estimation and keep gas as supplied.
C10_GasIsTwiceTheEstimate ==
    \A i \in Primary :
      /\ sent[i].rest = request.rest
      /\ (request.method = "eth_call" /\ Missing(request.tx, "gas")) =>
           /\ Cardinality(EstimateCalls) = 1
           /\ \A j \in EstimateCalls :
                /\ calls[j].depth = 1
                /\ calls[j].arg =
                     IF Missing(request.tx, "from")
                     THEN Assoc(request.tx, "from", sent[i].tx["from"])
                     ELSE request.tx
                /\ backend.estimate.ok
                /\ sent[i].tx["gas"] = 2 * backend.estimate.val
                /\ \A f \in TxFields \ {"gas"} :
                     SameField(sent[i].tx, calls[j].arg, f)
      /\ request.method \in {"eth_estimateGas", "eth_sendTransaction"} =>
           /\ EstimateCalls = {}
           /\ SameField(sent[i].tx, request.tx, "gas")

C10_Witness ==
    /\ Primary # {}
    /\ request.method = "eth_call"
    /\ Missing(request.tx, "gas")
    /\ Missing(request.tx, "from")
    /\ request.rest = <<"latest">>
    /\ backend.estimate.ok
    /\ backend.estimate.val > 0

(***************************************************************************)
(* The request formatters of ethereum_tester_middleware.                   *)
(*                                                                         *)
(* Values carry their Python type: a string (a tuple of characters), an    *)
(* integer, a dict (a function from key to value) or None.                 *)
(***************************************************************************)
MaxHexDigits == 2

S(chars) == [t |-> "str", v |-> chars]
I(n) == [t |-> "int", v |-> n]
D(f) == [t |-> "dict", v |-> f]

latest == <<"l", "a", "t", "e", "s", "t">>
earliest == <<"e", "a", "r", "l", "i", "e", "s", "t">>
pending == <<"p", "e", "n", "d", "i", "n", "g">>
Tags == {S(latest), S(earliest), S(pending)}

\* string.hexdigits and the value int(c, 16) of each.
DigitValue(c) ==
    CASE c = "0" -> 0 [] c = "1" -> 1 [] c = "2" -> 2 [] c = "3" -> 3
      [] c = "4" -> 4 [] c = "5" -> 5 [] c = "6" -> 6 [] c = "7" -> 7
      [] c = "8" -> 8 [] c = "9" -> 9
      [] c \in {"a", "A"} -> 10 [] c \in {"b", "B"} -> 11
      [] c \in {"c", "C"} -> 12 [] c \in {"d", "D"} -> 13
      [] c \in {"e", "E"} -> 14 [] c \in {"f", "F"} -> 15
      [] OTHER -> 16
IsHexDigit(c) == DigitValue(c) < 16

Is0xPrefixed(chars) ==
    Len(chars) >= 2 /\ chars[1] = "0" /\ chars[2] \in {"x", "X"}
Remove0xPrefix(chars) ==
    IF Is0xPrefixed(chars) THEN SubSeq(chars, 3, Len(chars)) ELSE chars

\* eth_utils.is_hex on a text: "0x" alone, or hex digits only (at least one)
\* after an optional 0x prefix.
is_hex(chars) ==
    \/ Is0xPrefixed(chars) /\ Len(chars) = 2
    \/ /\ Len(Remove0xPrefix(chars)) > 0
       /\ \A i \in 1..Len(Remove0xPrefix(chars)) : IsHexDigit(Remove0xPrefix(chars)[i])

is_named_block(value) == value \in Tags

is_hexstr_AnyString(value) == value.t = "str"

is_hexstr(value) == value.t = "str" /\ is_hex(value.v)

is_not_named_block(value) == ~is_named_block(value)

RECURSIVE FoldHex(_, _)
FoldHex(digits, acc) ==
    IF Len(digits) = 0 THEN acc
    ELSE FoldHex(Tail(digits), acc * 16 + DigitValue(Head(digits)))

ValueError == [t |-> "error", v |-> "ValueError"]
TypeError == [t |-> "error", v |-> "TypeError"]
IndexError == [t |-> "error", v |-> "IndexError"]
IsError(value) == value.t = "error"

\* int(hex_value, 16): the digits after an optional 0x prefix; ValueError
\* for anything else in a string, TypeError for a value that is no string.
hex_to_integer(value) ==
    IF value.t # "str" THEN TypeError
    ELSE IF /\ Len(Remove0xPrefix(value.v)) > 0
            /\ \A i \in 1..Len(Remove0xPrefix(value.v)) :
                 IsHexDigit(Remove0xPrefix(value.v)[i])
         THEN I(FoldHex(Remove0xPrefix(value.v), 0))
         ELSE ValueError

\* apply_formatter_if(is_hexstr, hex_to_integer)
to_integer_if_hex(value) ==
    IF is_hexstr(value) THEN hex_to_integer(value) ELSE value

\* apply_formatter_if(is_not_named_block, to_integer_if_hex)
block_number_formatter(value) ==
    IF is_not_named_block(value) THEN to_integer_if_hex(value) ELSE value

TRANSACTION_PARAMS_MAPPING == [gasPrice |-> "gas_price"]
FILTER_PARAMS_MAPPINGS == [fromBlock |-> "from_block", toBlock |-> "to_block"]
\* The keys of the two tables of formatters; each maps to to_integer_if_hex.
TRANSACTION_PARAMS_FORMATTERS == {"gas", "gasPrice", "value", "nonce"}
FILTER_PARAMS_FORMATTERS == {"fromBlock", "toBlock"}

\* apply_key_map(key_mappings, value)
apply_key_map(key_mappings, value) ==
    LET new(k) == IF k \in DOMAIN key_mappings THEN key_mappings[k] ELSE k
    IN  D([k2 \in {new(k) : k \in DOMAIN value.v} |->
             value.v[CHOOSE k \in DOMAIN value.v : new(k) = k2]])

\* apply_formatters_to_dict(formatters, value), every formatter being
\* to_integer_if_hex; a formatter's error is raised.
apply_formatters_to_dict(keys, value) ==
    LET out == [k \in DOMAIN value.v |->
                  IF k \in keys THEN to_integer_if_hex(value.v[k]) ELSE value.v[k]]
    IN  IF \E k \in DOMAIN out : IsError(out[k]) THEN ValueError ELSE D(out)

\* remove_key_if(key, lambda _: True)
remove_key_if(key, value) ==
    D([k \in DOMAIN value.v \ {key} |-> value.v[k]])

\* One step of a formatter applied to one value.  A dict formatter given a
\* value that is no dict raises.
Apply(op, value) ==
    CASE op = "identity" -> value
      [] op = "hex_to_integer" -> hex_to_integer(value)
      [] op = "to_integer_if_hex" -> to_integer_if_hex(value)
      [] op = "block_number_formatter" -> block_number_formatter(value)
      [] OTHER ->
           IF value.t # "dict" THEN TypeError
           ELSE CASE op = "transaction_params_remapper" ->
                       apply_key_map(TRANSACTION_PARAMS_MAPPING, value)
                  [] op = "transaction_params_formatters" ->
                       apply_formatters_to_dict(TRANSACTION_PARAMS_FORMATTERS, value)
                  [] op = "remove_nonce" -> remove_key_if("nonce", value)
                  [] op = "filter_params_remapper" ->
                       apply_key_map(FILTER_PARAMS_MAPPINGS, value)
                  [] op = "filter_params_formatter" ->
                       apply_formatters_to_dict(FILTER_PARAMS_FORMATTERS, value)

(***************************************************************************)
(* A formatter is the sequence of its steps in the order they are applied. *)
(* toolz.compose(f, g, ...) applies its LAST argument first.               *)
(***************************************************************************)
RECURSIVE Compose_LeftToRight(_)
Compose_LeftToRight(fs) ==
    IF Len(fs) = 0 THEN <<>> ELSE Head(fs) \o Compose_LeftToRight(Tail(fs))

RECURSIVE Compose(_)
Compose(fs) ==
    IF Len(fs) = 0 THEN <<>> ELSE Compose(Tail(fs)) \o Head(fs)

transaction_params_formatter ==
    Compose(<< <<"remove_nonce">>, <<"transaction_params_formatters">> >>)

filter_params_transformer ==
    Compose(<< <<"filter_params_remapper">>, <<"filter_params_formatter">> >>)

transaction_params_transformer ==
    Compose(<< <<"transaction_params_remapper">>, transaction_params_formatter >>)

\* apply_formatter_at_index(formatter, index)
AtIndex(formatter, index) ==
    [i \in 1..Len(formatter) |-> [at |-> index, op |-> formatter[i]]]

\* apply_formatters_to_args(*formatters): the composition of each formatter
\* at its index.
apply_formatters_to_args(formatters) ==
    Compose([i \in 1..Len(formatters) |-> AtIndex(formatters[i], i - 1)])

BlockMethods0 == {"eth_getBlockByNumber", "eth_getBlockTransactionCountByNumber",
                  "eth_getUncleCountByBlockNumber"}
BlockIndexMethods == {"eth_getTransactionByBlockNumberAndIndex",
                      "eth_getUncleByBlockNumberAndIndex"}
HexArgMethods == {"eth_getFilterChanges", "eth_getFilterLogs",
                  "eth_uninstallFilter", "evm_revert"}
FilterMethods == {"eth_newFilter", "eth_getLogs"}

\* request_formatters of ethereum_tester_middleware; a method without an
\* entry has nothing applied.
request_formatters(method) ==
    CASE method \in BlockMethods0 ->
           apply_formatters_to_args(<< <<"block_number_formatter">> >>)
      [] method \in HexArgMethods ->
           apply_formatters_to_args(<< <<"hex_to_integer">> >>)
      [] method = "eth_getTransactionByBlockHashAndIndex" ->
           apply_formatters_to_args(<< <<"identity">>, <<"to_integer_if_hex">> >>)
      [] method \in BlockIndexMethods ->
           apply_formatters_to_args(
               << <<"block_number_formatter">>, <<"to_integer_if_hex">> >>)
      [] method \in FilterMethods ->
           apply_formatters_to_args(<< filter_params_transformer >>)
      [] method \in {"eth_sendTransaction", "eth_estimateGas"} ->
           apply_formatters_to_args(<< transaction_params_transformer >>)
      [] method = "eth_call" ->
           apply_formatters_to_args(
               << transaction_params_transformer, <<"block_number_formatter">> >>)
      [] method = "eth_getCode" ->
           apply_formatters_to_args(<< <<"identity">>, <<"block_number_formatter">> >>)
      [] method = "personal_sendTransaction" ->
           apply_formatters_to_args(<< transaction_params_transformer, <<"identity">> >>)
      [] OTHER -> <<>>

(***************************************************************************)
(* The requests the model gives the formatters.                            *)
(***************************************************************************)
HexAlphabet == {"1", "a", "F"}
HexStrings ==
    { S(<<"0", "x">> \o d) :
        d \in UNION { [1..n -> HexAlphabet] : n \in 1..MaxHexDigits } }
BlockArgs == Tags \cup HexStrings \cup {I(2)}
FewBlockArgs == Tags \cup {S(<<"0", "x", "1">>)}
IndexArgs == {S(<<"0", "x", "1">>), I(0)}
HashArgs == {S(<<"0", "x", "a", "b">>)}

DictsOver(keys, vals(_)) ==
    UNION { { D(f) : f \in { g \in [K -> UNION {vals(k) : k \in keys}] :
                              \A k \in K : g[k] \in vals(k) } } :
            K \in SUBSET keys }

TxValues(k) ==
    CASE k = "gasPrice" -> {S(<<"0", "x", "1", "F">>), I(3)}
      [] k = "nonce" -> {S(<<"0", "x", "1">>)}
      [] OTHER -> HashArgs
TxPayloads == DictsOver({"gasPrice", "nonce", "to"}, TxValues)

FilterValues(k) ==
    CASE k = "fromBlock" -> BlockArgs
      [] k = "toBlock" -> {S(pending), S(<<"0", "x", "a">>)}
      [] OTHER -> HashArgs
FilterPayloads == DictsOver({"fromBlock", "toBlock", "address"}, FilterValues)

FmtMethods ==
    BlockMethods0 \cup BlockIndexMethods \cup HexArgMethods \cup FilterMethods
      \cup {"eth_getTransactionByBlockHashAndIndex", "eth_sendTransaction",
            "eth_estimateGas", "eth_call", "eth_getCode",
            "personal_sendTransaction", "eth_getBalance"}

FmtParams(method) ==
    CASE method \in BlockMethods0 ->
           {<<b>> : b \in BlockArgs} \cup {<<b, I(1)>> : b \in FewBlockArgs}
      [] method \in HexArgMethods -> {<<S(<<"0", "x", "a">>)>>, <<I(1)>>}
      [] method = "eth_getTransactionByBlockHashAndIndex" ->
           {<<h, i>> : h \in HashArgs, i \in IndexArgs}
      [] method \in BlockIndexMethods ->
           {<<b, i>> : b \in FewBlockArgs, i \in IndexArgs}
      [] method \in FilterMethods -> {<<f>> : f \in FilterPayloads}
      [] method \in {"eth_sendTransaction", "eth_estimateGas"} ->
           {<<tx>> : tx \in TxPayloads}
      [] method = "eth_call" ->
           {<<tx, b>> : tx \in TxPayloads, b \in FewBlockArgs}
             \cup {<<tx>> : tx \in TxPayloads}
      [] method = "personal_sendTransaction" ->
           {<<tx, S(<<"p", "w">>)>> : tx \in TxPayloads}
      [] OTHER -> {<<h, b>> : h \in HashArgs, b \in FewBlockArgs}

\* The injector takes no part in the other two specifications.
InjIdle ==
    /\ backend = [coinbase |-> Ok(Null), accounts |-> Ok(<<>>), estimate |-> Ok(0)]
    /\ request = NoRequest
    /\ stack = <<>>
    /\ calls = <<>>
    /\ failed = <<>>
    /\ sent = <<>>
    /\ outcome = NoOutcome

InitFmt ==
    /\ InjIdle
    /\ FmtIdle
    /\ AbiIdle

\* The formatting middleware is called: the method's request formatter, if
\* it has one, is about to be applied to the params.
FmtReceive(method, params) ==
    /\ fState = "idle"
    /\ fIn' = [method |-> method, params |-> params]
    /\ fParams' = params
    /\ fProg' = request_formatters(method)
    /\ fLog' = <<>>
    /\ fState' = "formatting"
    /\ UNCHANGED <<injVars, abiVars>>

\* The next step of the formatter: apply_formatter_at_index raises
\* IndexError when the params are too short, and an error of the step itself
\* is raised to the caller.
FmtStep ==
    /\ fState = "formatting"
    /\ Len(fProg) > 0
    /\ LET step == Head(fProg)
           new == IF step.at >= Len(fParams) THEN IndexError
                  ELSE Apply(step.op, fParams[step.at + 1])
       IN  /\ fLog' = Append(fLog, step)
           /\ IF IsError(new)
              THEN /\ fState' = "raised"
                   /\ UNCHANGED <<fParams, fProg>>
              ELSE /\ fParams' = [fParams EXCEPT ![step.at + 1] = new]
                   /\ fProg' = Tail(fProg)
                   /\ UNCHANGED fState
    /\ UNCHANGED <<fIn, injVars, abiVars>>

\* make_request(method, formatted_params)
FmtForward ==
    /\ fState = "formatting"
    /\ Len(fProg) = 0
    /\ fState' = "forwarded"
    /\ UNCHANGED <<fIn, fParams, fProg, fLog, injVars, abiVars>>

NextFmt ==
    \/ \E m \in FmtMethods : \E params \in FmtParams(m) : FmtReceive(m, params)
    \/ FmtStep
    \/ FmtForward

SpecFmt == InitFmt /\ [][NextFmt]_vars

(***************************************************************************)
(* Properties of the request formatters.                                   *)
(***************************************************************************)
\* The 0-based position of the block-number-or-tag argument of a method.
BlockArgMethods == BlockMethods0 \cup BlockIndexMethods \cup {"eth_call", "eth_getCode"}
BlockArgAt(method) == IF method \in {"eth_call", "eth_getCode"} THEN 1 ELSE 0
BackendKey(k) ==
    CASE k = "fromBlock" -> "from_block"
      [] k = "toBlock" -> "to_block"
      [] k = "gasPrice" -> "gas_price"
      [] OTHER -> k
LastStep == fLog[Len(fLog)]

\* C6: a reserved block tag is forwarded as that very string, never as an
\* integer, at every position that takes a block number or tag and in the
\* fromBlock / toBlock of a filter; the tag makes no formatter fail.
C6_TagsAreForwarded ==
    /\ (fState # "idle" /\ fIn.method \in BlockArgMethods) =>
         LET i == BlockArgAt(fIn.method) + 1
         IN  (i <= Len(fIn.params) /\ fIn.params[i] \in Tags) =>
               /\ fParams[i] = fIn.params[i]
               /\ fState = "raised" => LastStep.at # i - 1
    /\ (fState # "idle" /\ fIn.method \in FilterMethods) =>
         \A k \in {"fromBlock", "toBlock"} :
           (k \in DOMAIN fIn.params[1].v /\ fIn.params[1].v[k] \in Tags) =>
             /\ fState # "raised"
             /\ \E k2 \in {k, BackendKey(k)} :
                  /\ k2 \in DOMAIN fParams[1].v
                  /\ fParams[1].v[k2] = fIn.params[1].v[k]
             /\ fState = "forwarded" =>
                  /\ BackendKey(k) \in DOMAIN fParams[1].v
                  /\ fParams[1].v[BackendKey(k)] = fIn.params[1].v[k]

C6_Witness ==
    /\ fState = "forwarded"
    /\ fIn.method = "eth_getLogs"
    /\ DOMAIN fIn.params[1].v = {"fromBlock", "toBlock"}
    /\ fIn.params[1].v["fromBlock"] = S(earliest)
    /\ fIn.params[1].v["toBlock"] = S(<<"0", "x", "a">>)
    /\ fParams[1].v["from_block"] = S(earliest)
    /\ fParams[1].v["to_block"] = I(10)

FormatOps == {"transaction_params_formatters", "filter_params_formatter"}
RenameOps == {"transaction_params_remapper", "filter_params_remapper"}
PayloadMethods ==
    FilterMethods \cup {"eth_sendTransaction", "eth_estimateGas", "eth_call",
                        "personal_sendTransaction"}

\* C9 as claimed: on the request path the keys of a filter or transaction
\* payload are renamed before the hex-to-integer formatting runs.
C9_RenameBeforeFormat ==
    \A i \in 1..Len(fLog) :
      fLog[i].op \in FormatOps =>
        \E j \in 1..(i - 1) : fLog[j].op \in RenameOps /\ fLog[j].at = fLog[i].at

\* C9 as amended: the hex-to-integer formatting runs first, on the payload
\* with its wire keys (fromBlock, toBlock, gasPrice), and the keys are
\* renamed afterwards: the forwarded payload has the backend keys
\* (from_block, to_block, gas_price) and no wire key, and their values are
\* integers wherever the caller gave a hex string.
C9_FormatBeforeRename ==
    /\ \A i \in 1..Len(fLog) :
         fLog[i].op \in RenameOps =>
           \E j \in 1..(i - 1) : fLog[j].op \in FormatOps /\ fLog[j].at = fLog[i].at
    /\ (fState = "forwarded" /\ fIn.method \in PayloadMethods) =>
         /\ \E i \in 1..Len(fLog) : fLog[i].op \in RenameOps
         /\ \A k \in {"fromBlock", "toBlock", "gasPrice"} :
              /\ k \notin DOMAIN fParams[1].v
              /\ k \in DOMAIN fIn.params[1].v =>
                   /\ BackendKey(k) \in DOMAIN fParams[1].v
                   /\ IF fIn.params[1].v[k] \in Tags
                      THEN fParams[1].v[BackendKey(k)] = fIn.params[1].v[k]
                      ELSE fParams[1].v[BackendKey(k)].t = "int"

C9_Witness ==
    /\ fState = "forwarded"
    /\ fIn.method = "eth_sendTransaction"
    /\ "gasPrice" \in DOMAIN fIn.params[1].v
    /\ fIn.params[1].v["gasPrice"] = S(<<"0", "x", "1", "F">>)
    /\ fParams[1].v["gas_price"] = I(31)
    /\ [i \in 1..Len(fLog) |-> fLog[i].op] =
         <<"transaction_params_formatters", "remove_nonce",
           "transaction_params_remapper">>

(***************************************************************************)
(* apply_abi_formatters_to_dict(normalizers, abi_dict, data).              *)
(*                                                                         *)
(* A raw value v is [t |-> "raw", v |-> v]; normalizing it by an ABI type  *)
(* gives [t |-> type, v |-> v], which records the type it was normalized   *)
(* by.                                                                     *)
(***************************************************************************)
MaxRaw == 1

TRANSACTION_PARAMS_ABIS ==
    [k \in {"data", "from", "gas", "gasPrice", "nonce", "to", "value"} |->
       CASE k = "data" -> "bytes"
         [] k \in {"from", "to"} -> "address"
         [] OTHER -> "uint"]

FILTER_PARAMS_ABIS ==
    [k \in {"to", "address"} |-> IF k = "to" THEN "address" ELSE "address[]"]

TRACE_PARAMS_ABIS == [k \in {"to", "from"} |-> "address"]

KeyedSchemas == {TRANSACTION_PARAMS_ABIS, FILTER_PARAMS_ABIS, TRACE_PARAMS_ABIS}

Raw(v) == [t |-> "raw", v |-> v]

\* The kind-directed normalizer applied to one value.
Normalize(type, value) == [t |-> type, v |-> value.v]

\* map_abi_data(normalizers, types, data): one normalized value per
\* (type, value) pair, in order.
map_abi_data(types, data) ==
    [i \in 1..Len(types) |-> Normalize(types[i], data[i])]

\* dict(zip(keys, values))
DictZip(keys, values) ==
    [k \in {keys[i] : i \in 1..Len(keys)} |->
       values[CHOOSE i \in 1..Len(keys) : keys[i] = k]]

\* dict(data, **update)
DictUpdate(data, update) ==
    [k \in DOMAIN data \cup DOMAIN update |->
       IF k \in DOMAIN update THEN update[k] ELSE data[k]]

apply_abi_formatters_to_dict_OnlyFormatted(abi_dict, data, fields) ==
    DictZip(fields,
            map_abi_data([i \in 1..Len(fields) |-> abi_dict[fields[i]]],
                         [i \in 1..Len(fields) |-> data[fields[i]]]))

\* `fields` is list(set(abi_dict.keys()) & set(data.keys())), in the order
\* the set happens to give.
apply_abi_formatters_to_dict(abi_dict, data, fields) ==
    LET formatted_values ==
            map_abi_data([i \in 1..Len(fields) |-> abi_dict[fields[i]]],
                         [i \in 1..Len(fields) |-> data[fields[i]]])
        formatted_dict == DictZip(fields, formatted_values)
    IN  DictUpdate(data, formatted_dict)

\* The orders a set may be listed in.
Orderings(set) ==
    {f \in [1..Cardinality(set) -> set] : \A i, j \in DOMAIN f : f[i] = f[j] => i = j}

PayloadKeys == {"from", "to", "gas", "address", "chainId"}
Payloads == UNION { [K -> {Raw(v) : v \in 0..MaxRaw}] : K \in SUBSET PayloadKeys }

InitAbi ==
    /\ InjIdle
    /\ FmtIdle
    /\ aIn \in [schema : KeyedSchemas, data : Payloads, fields : {<<>>}]
    /\ aOut = NoResult

\* The formatter of a method with a keyed schema is applied to a payload.
AbiApply ==
    /\ ~aOut.done
    /\ \E fields \in Orderings(DOMAIN aIn.schema \cap DOMAIN aIn.data) :
         /\ aIn' = [aIn EXCEPT !.fields = fields]
         /\ aOut' = [done |-> TRUE,
                     data |-> apply_abi_formatters_to_dict(aIn.schema, aIn.data, fields)]
    /\ UNCHANGED <<injVars, fmtVars>>

NextAbi == AbiApply

SpecAbi == InitAbi /\ [][NextAbi]_vars

\* C5: the result of apply_abi_formatters_to_dict has exactly the keys of
\* the payload; a key that the schema has holds the payload's value
\* normalized by the schema's type for it, any other key the payload's
\* value; a schema key the payload lacks does not appear.
C5_KeyedSchemaPreservesPayload ==
    aOut.done =>
      /\ DOMAIN aOut.data = DOMAIN aIn.data
      /\ \A k \in DOMAIN aIn.data :
           IF k \in DOMAIN aIn.schema
           THEN aOut.data[k] = [t |-> aIn.schema[k], v |-> aIn.data[k].v]
           ELSE aOut.data[k] = aIn.data[k]

C5_Witness ==
    /\ aOut.done
    /\ aIn.schema = TRANSACTION_PARAMS_ABIS
    /\ DOMAIN aIn.data = {"from", "gas", "chainId"}
    /\ aIn.fields = <<"gas", "from">>
    /\ aOut.data["from"].t = "address"
    /\ aOut.data["gas"].t = "uint"
    /\ aOut.data["chainId"] = Raw(1)

====
